---------------------------- MODULE Spec2Model ----------------------------
(***************************************************************************)
(* Model of the threaded LD2410 mmWave radar driver (src/ld2410.py).       *)
(*                                                                         *)
(* Bytes are the integers 0..255 and a bytes object is a sequence of them. *)
(* The serial port is the pair (rx, tx): rx holds the bytes the sensor has *)
(* delivered and the driver has not read yet, tx the bytes the driver has  *)
(* written.  A serial read with a timeout returns what rx holds, up to the *)
(* number of bytes asked for.                                              *)
(*                                                                         *)
(* Three threads of control: the consumer thread that calls __enter__ and  *)
(* __exit__, a consumer thread that calls get_latest, and the worker       *)
(* thread that executes run().  The sensor is the environment.             *)
(* Reading.timestamp (datetime.now()) and the thresholds / presence        *)
(* placeholder are not part of the state.                                  *)
(***************************************************************************)
EXTENDS Integers, Sequences, FiniteSets, TLC

VARIABLES
    port,       \* self.port: "COM7" (a real device) or "test"
    maxlen,     \* capacity given to deque(maxlen=...)
    running,    \* self.running
    stopped,    \* self.stopped
    buffer,     \* self.buffer, oldest first
    serial,     \* self.serial: "none" (None), "open" or "closed"
    started,    \* Thread.start() has been called
    rx,         \* bytes delivered by the sensor and not read yet
    tx,         \* bytes written to the port so far
    wpc,        \* worker: position in run()
    step,       \* worker: handshake step 1..6 (7 once the handshake is over)
    tries,      \* worker: try_no of the _rx_sequence in progress
    scan,       \* worker: preamble_target_no / target_preamble of the scan
    seq,        \* worker: the payload _get_next_reading returns, else <<>>
    wfail,      \* worker: the exception that ended run(), "" if none
    cpc,        \* consumer: position in __enter__/__exit__
    lastCall,   \* consumer: how its last call ended
    gpc,        \* get_latest caller: position
    got,        \* get_latest caller: value returned
    pushed,     \* history: the last MaxCap readings run() appended, oldest first
    npush,      \* history: number of appends by run(), counted up to MaxCap + 1
    closes,     \* history: number of serial.close() calls
    hpc,        \* codec harness: position
    hin,        \* codec harness: the input under test
    hout        \* codec harness: the value computed

vars == <<port, maxlen, running, stopped, buffer, serial, started, rx, tx,
          wpc, step, tries, scan, seq, wfail, cpc, lastCall,
          gpc, got, pushed, npush, closes, hpc, hin, hout>>

driverVars == <<port, maxlen, running, stopped, buffer, serial, started,
                wpc, step, tries, scan, seq, wfail, cpc, lastCall,
                gpc, got, pushed, npush, closes>>

harnessVars == <<hpc, hin, hout>>

---------------------------------------------------------------------------
(* Bounds of the model                                                     *)

MaxCap == 2         \* the buffer capacities tried are 0 and MaxCap
MaxBacklog == 0     \* the sensor sends while rx holds at most this many bytes
MaxBody == 3        \* codec: command bodies of up to this many bytes
MaxNoise == 4       \* codec: noise prefixes of up to this many bytes
MaxTail == 7        \* codec: bytes following a matched preamble

Min(a, b) == IF a < b THEN a ELSE b

---------------------------------------------------------------------------
(* Wire constants and byte helpers                                         *)

COMMAND_PREAMBLE == <<253, 252, 251, 250>>
COMMAND_POSTAMBLE == <<4, 3, 2, 1>>
REPORTING_PREAMBLE == <<244, 243, 242, 241>>
REPORTING_POSTAMBLE == <<248, 247, 246, 245>>

Preamble(kind) ==
    IF kind = "report" THEN REPORTING_PREAMBLE ELSE COMMAND_PREAMBLE

Postamble(kind) ==
    IF kind = "report" THEN REPORTING_POSTAMBLE ELSE COMMAND_POSTAMBLE

\* int.from_bytes(inp, byteorder="little", signed=False)
RECURSIVE byte_pair_to_int(_)
byte_pair_to_int(inp) ==
    IF inp = <<>> THEN 0 ELSE inp[1] + 256 * byte_pair_to_int(Tail(inp))

\* (mutation) the length written high byte first
length_to_bytes_big_endian(length) ==
    <<(length \div 256) % 256, length % 256>>

\* length.to_bytes(2, byteorder="little"); lengths above 65535 raise
length_to_bytes(length) == <<length % 256, (length \div 256) % 256>>

\* The bytes _tx_sequence writes for a payload
tx_sequence(payload) ==
    COMMAND_PREAMBLE \o length_to_bytes(Len(payload)) \o payload
        \o COMMAND_POSTAMBLE

\* serial.read(length) under a timeout, reading s from position pos
read_bytes(s, pos, length) ==
    SubSeq(s, pos, Min(pos + length - 1, Len(s)))

\* (mutation) only an empty read counts as short
is_short_only_if_empty(bytes, want) == want > 0 /\ Len(bytes) = 0

\* "if not len(x)==n: raise": the read came back short
is_short(bytes, want) == Len(bytes) # want

NoScan == [no |-> 0, target |-> <<>>]

\* (mutation) only the command preamble's first byte starts a match
RECURSIVE scan_preamble_command_only(_, _, _, _)
scan_preamble_command_only(s, i, no, target) ==
    IF no = 4 \/ i > Len(s)
    THEN [no |-> no, target |-> target, pos |-> i]
    ELSE LET c == s[i] IN
         IF no = 0
         THEN IF c = COMMAND_PREAMBLE[1]
              THEN scan_preamble_command_only(s, i + 1, 1, COMMAND_PREAMBLE)
              ELSE scan_preamble_command_only(s, i + 1, 0, <<>>)
         ELSE IF c # target[no + 1]
              THEN scan_preamble_command_only(s, i + 1, 0, <<>>)
              ELSE scan_preamble_command_only(s, i + 1, no + 1, target)

\* The byte loop of _read_any_message over the bytes s[i..], entered with
\* preamble_target_no = no and target_preamble = target.  It ends when the
\* preamble is complete or when the bytes run out (every further read times
\* out and the loop keeps waiting).
scan_preamble(s, i, no, target) ==
    LET loop[k \in 1..(Len(s) + 1), n \in 0..4,
             t \in {<<>>, COMMAND_PREAMBLE, REPORTING_PREAMBLE}] ==
            IF n = 4 \/ k > Len(s)
            THEN [no |-> n, target |-> t, pos |-> k]
            ELSE IF n = 0
                 THEN IF s[k] = COMMAND_PREAMBLE[1]
                         \/ s[k] = REPORTING_PREAMBLE[1]
                      THEN loop[k + 1, 1,
                                IF s[k] = REPORTING_PREAMBLE[1]
                                THEN REPORTING_PREAMBLE
                                ELSE COMMAND_PREAMBLE]
                      ELSE loop[k + 1, 0, <<>>]
                 ELSE IF s[k] # t[n + 1]
                      THEN loop[k + 1, 0, <<>>]
                      ELSE loop[k + 1, n + 1, t]
    IN  loop[i, no, target]

Message(status, preamble, payload, postamble, sc, rest) ==
    [status |-> status, preamble |-> preamble, payload |-> payload,
     postamble |-> postamble, no |-> sc.no, target |-> sc.target,
     rest |-> rest]

NoMessage == Message("none", <<>>, <<>>, <<>>, NoScan, <<>>)

\* What _read_any_message does on the input s once its byte loop has ended
\* in sc: the reads of the length, the payload and the postamble.
\* status: "ok" (the tuple is returned), "length" / "payload" / "postamble"
\* (the LD2410Exception raised by that read), "scanning" (still in the byte
\* loop, all of s consumed).  rest is what is left unread.
read_after_preamble(s, sc) ==
    IF sc.no < 4
    THEN Message("scanning", SubSeq(sc.target, 1, sc.no), <<>>, <<>>,
                 sc, <<>>)
    ELSE
    LET length_raw == read_bytes(s, sc.pos, 2) IN
    IF is_short(length_raw, 2)
    THEN Message("length", sc.target, <<>>, <<>>, NoScan, <<>>)
    ELSE
    LET length == byte_pair_to_int(length_raw)
        payload == read_bytes(s, sc.pos + 2, length)
    IN
    IF is_short(payload, length)
    THEN Message("payload", sc.target, payload, <<>>, NoScan, <<>>)
    ELSE
    LET postamble == read_bytes(s, sc.pos + 2 + length, 4) IN
    IF is_short(postamble, 4)
    THEN Message("postamble", sc.target, payload, postamble, NoScan,
                 <<>>)
    ELSE Message("ok", sc.target, payload, postamble, NoScan,
                 SubSeq(s, sc.pos + 6 + length, Len(s)))

\* _read_any_message on the input s, the scan entered in state st
read_any_message(s, st) ==
    CHOOSE m \in {read_after_preamble(s, sc) :
                      sc \in {scan_preamble(s, 1, st.no, st.target)}} : TRUE

\* (mutation) detection_distance and the fields after it read one byte late
new_from_bytes_shifted(data) ==
    [target_state |-> data[1],
     moving_target_range |-> data[2] + 256 * data[3],
     moving_target_energy |-> data[4],
     static_target_range |-> data[5] + 256 * data[6],
     static_target_energy |-> data[7],
     detection_distance |-> data[9] + 256 * data[10],
     max_moving_distance |-> data[11],
     max_static_distance |-> data[12],
     moving |-> [i \in 1..12 |-> data[11 + i]],
     static |-> [i \in 1..12 |-> data[23 + i]]]

\* Reading.new_from_bytes (python index k is TLA+ index k + 1)
new_from_bytes(data) ==
    [target_state |-> data[1],
     moving_target_range |-> byte_pair_to_int(SubSeq(data, 2, 3)),
     moving_target_energy |-> data[4],
     static_target_range |-> byte_pair_to_int(SubSeq(data, 5, 6)),
     static_target_energy |-> data[7],
     detection_distance |-> byte_pair_to_int(SubSeq(data, 8, 9)),
     max_moving_distance |-> data[10],
     max_static_distance |-> data[11],
     moving |-> [i \in 1..12 |-> data[11 + i]],
     static |-> [i \in 1..12 |-> data[23 + i]]]

---------------------------------------------------------------------------
(* The handshake table of run(): command, required ack, retries            *)

\* (mutation) engineering mode is requested before the firmware version
Command_engineering_first(s) ==
    CASE s = 1 -> <<255, 0, 1, 0>>
      [] s = 2 -> <<163, 0>>
      [] s = 3 -> <<255, 0, 1, 0>>
      [] s = 4 -> <<98, 0>>
      [] s = 5 -> <<160, 0>>
      [] s = 6 -> <<254, 0>>

Command(s) ==
    CASE s = 1 -> <<255, 0, 1, 0>>
      [] s = 2 -> <<163, 0>>
      [] s = 3 -> <<255, 0, 1, 0>>
      [] s = 4 -> <<160, 0>>
      [] s = 5 -> <<98, 0>>
      [] s = 6 -> <<254, 0>>

\* the reply each step compares resp with; step 4 (firmware) compares nothing
RequiredAck(s) ==
    CASE s = 1 -> <<255, 1, 0, 0, 1, 0, 64, 0>>
      [] s = 2 -> <<163, 1, 0, 0>>
      [] s = 3 -> <<255, 1, 0, 0, 1, 0, 64, 0>>
      [] s = 4 -> <<>>
      [] s = 5 -> <<98, 1, 0, 0>>
      [] s = 6 -> <<254, 1, 0, 0>>

Retries(s) ==
    CASE s = 1 -> 10
      [] s = 2 -> 3
      [] s = 3 -> 10
      [] s = 4 -> 3
      [] s = 5 -> 10
      [] s = 6 -> 5

\* (mutation) the reply to "leave configuration" is only logged, like the
\* firmware reply
ack_accepted_leave_unchecked(s, r) == s \in {4, 6} \/ r = RequiredAck(s)

\* "if not resp==list_ints_to_bytes([...]): raise" of step s
ack_accepted(s, r) == s = 4 \/ r = RequiredAck(s)

\* (mutation) a full deque drops the new reading instead of the oldest
deque_append_keep_oldest(buf, x, cap) ==
    IF Len(buf) >= cap THEN buf ELSE Append(buf, x)

\* deque(maxlen=cap).append(x)
deque_append(buf, x, cap) ==
    IF cap = 0 THEN buf
    ELSE IF Len(buf) = cap THEN Append(Tail(buf), x)
    ELSE Append(buf, x)

\* (mutation) any payload that is long enough is taken for a report
report_length_ok_at_least(payload) == Len(payload) >= 35

\* "if len(seq)==35: break" of _get_next_reading
report_length_ok(payload) == Len(payload) = 35

\* get_latest's "return self.buffer[-1]"
latest(buf) == buf[Len(buf)]

\* (mutation) one attempt more than `retries` is made
rx_outcome_extra_attempt(m, kind, try_no, n) ==
    CASE m.status = "scanning" -> "scanning"
      [] m.status \in {"length", "payload", "postamble"} -> "raise"
      [] m.status = "ok" ->
            IF m.preamble = Preamble(kind) /\ m.postamble = Postamble(kind)
            THEN "return"
            ELSE IF try_no < n THEN "retry" ELSE "exhausted"

\* (mutation) only the preamble is compared with the expected kind
rx_outcome_preamble_only(m, kind, try_no, n) ==
    CASE m.status = "scanning" -> "scanning"
      [] m.status \in {"length", "payload", "postamble"} -> "raise"
      [] m.status = "ok" ->
            IF m.preamble = Preamble(kind)
            THEN "return"
            ELSE IF try_no + 1 < n THEN "retry" ELSE "exhausted"

\* What one _read_any_message call m means to the _rx_sequence around it,
\* which expects frames of kind `kind` and is at try number try_no of n:
\* "scanning" (no frame yet), "raise" (the call raised), "return" (payload
\* returned), "retry" (wrong pre/postamble, tries left), "exhausted".
rx_outcome(m, kind, try_no, n) ==
    CASE m.status = "scanning" -> "scanning"
      [] m.status \in {"length", "payload", "postamble"} -> "raise"
      [] m.status = "ok" ->
            IF m.preamble = Preamble(kind) /\ m.postamble = Postamble(kind)
            THEN "return"
            ELSE IF try_no + 1 < n THEN "retry" ELSE "exhausted"

---------------------------------------------------------------------------
(* The worker thread: run()                                                *)

\* an exception leaves run(): the thread ends, self.stopped stays False
Die(why) ==
    /\ wpc' = "dead"
    /\ wfail' = why
    /\ tries' = 0
    /\ scan' = NoScan

\* self.running=True
WSetRunning ==
    /\ wpc = "run"
    /\ running' = TRUE
    /\ wpc' = "clear_stopped"
    /\ UNCHANGED <<port, maxlen, stopped, buffer, serial, started, rx, tx,
                   step, tries, scan, seq, wfail, cpc, lastCall, gpc, got, pushed, npush, closes,
                   harnessVars>>

\* self.stopped=False
WClearStopped ==
    /\ wpc = "clear_stopped"
    /\ stopped' = FALSE
    /\ wpc' = "tx"
    /\ UNCHANGED <<port, maxlen, running, buffer, serial, started, rx, tx,
                   step, tries, scan, seq, wfail, cpc, lastCall, gpc, got, pushed, npush, closes,
                   harnessVars>>

\* the _tx_sequence of handshake step `step`; writing to a port that is
\* None or closed raises and ends run()
WTx ==
    /\ wpc = "tx"
    /\ IF serial = "open"
       THEN /\ tx' = tx \o tx_sequence(Command(step))
            /\ wpc' = "rx"
            /\ tries' = 0
            /\ scan' = NoScan
            /\ UNCHANGED wfail
       ELSE /\ Die("port")
            /\ UNCHANGED tx
    /\ UNCHANGED <<port, maxlen, running, stopped, buffer, serial, started,
                   rx, step, seq, cpc, lastCall, gpc, got,
                   pushed, npush, closes, harnessVars>>

\* where run() goes once step s has its ack
AfterStep(s) ==
    CASE s = 2 -> "settle"
      [] s = 6 -> "loop"
      [] OTHER -> "tx"

\* one pass of the _rx_sequence of handshake step `step` over the bytes
\* received: a _read_any_message call, or the part of it the bytes allow,
\* and the ack comparison of the step when a payload is returned
WRx ==
    /\ wpc = "rx"
    /\ IF serial # "open"
       THEN /\ Die("port")
            /\ UNCHANGED <<rx, step>>
       ELSE
       /\ rx # <<>>
       /\ \E m \in {read_any_message(rx, scan)} :
          \E o \in {rx_outcome(m, "command", tries, Retries(step))} :
          /\ rx' = m.rest
          /\ CASE o = "scanning" ->
                    /\ scan' = [no |-> m.no, target |-> m.target]
                    /\ UNCHANGED <<wpc, wfail, step, tries>>
               [] o = "retry" ->
                    /\ scan' = NoScan
                    /\ tries' = tries + 1
                    /\ UNCHANGED <<wpc, wfail, step>>
               [] o = "raise" -> Die("framing") /\ UNCHANGED step
               [] o = "exhausted" -> Die("retries") /\ UNCHANGED step
               [] o = "return" ->
                    IF ack_accepted(step, m.payload)
                    THEN /\ wpc' = AfterStep(step)
                         /\ step' = step + 1
                         /\ tries' = 0
                         /\ scan' = NoScan
                         /\ UNCHANGED wfail
                    ELSE Die("ack") /\ UNCHANGED step
    /\ UNCHANGED <<port, maxlen, running, stopped, buffer, serial, started,
                   tx, seq, cpc, lastCall, gpc, got, pushed, npush,
                   closes, harnessVars>>

\* (mutation) the pause without the flush: what arrived stays buffered
WSettleNoFlush ==
    /\ wpc = "settle"
    /\ IF serial = "open"
       THEN /\ wpc' = "tx"
            /\ UNCHANGED <<wfail, tries, scan>>
       ELSE Die("port")
    /\ UNCHANGED <<port, maxlen, running, stopped, buffer, serial, started,
                   rx, tx, step, seq, cpc, lastCall,
                   gpc, got, pushed, npush, closes, harnessVars>>

\* time.sleep(2); self._flush_serial()
WSettle ==
    /\ wpc = "settle"
    /\ IF serial = "open"
       THEN /\ rx' = <<>>
            /\ wpc' = "tx"
            /\ UNCHANGED <<wfail, tries, scan>>
       ELSE /\ Die("port")
            /\ UNCHANGED rx
    /\ UNCHANGED <<port, maxlen, running, stopped, buffer, serial, started,
                   tx, step, seq, cpc, lastCall,
                   gpc, got, pushed, npush, closes, harnessVars>>

\* "while (self.running)": into _get_next_reading, or out of the loop
WLoopCheck ==
    /\ wpc = "loop"
    /\ wpc' = IF running THEN "read" ELSE "stopping"
    /\ UNCHANGED <<port, maxlen, running, stopped, buffer, serial, started,
                   rx, tx, step, tries, scan, seq, wfail, cpc, lastCall,
                   gpc, got, pushed, npush, closes, harnessVars>>

\* _get_next_reading: _rx_sequence(report_expected=True, retries=1) until a
\* payload of 35 bytes is returned
WReadReport ==
    /\ wpc = "read"
    /\ IF serial # "open"
       THEN /\ Die("port")
            /\ UNCHANGED <<rx, seq>>
       ELSE
       /\ rx # <<>>
       /\ \E m \in {read_any_message(rx, scan)} :
          \E o \in {rx_outcome(m, "report", tries, 1)} :
          /\ rx' = m.rest
          /\ CASE o = "scanning" ->
                    /\ scan' = [no |-> m.no, target |-> m.target]
                    /\ UNCHANGED <<wpc, wfail, tries, seq>>
               [] o = "raise" -> Die("framing") /\ UNCHANGED seq
               [] o \in {"retry", "exhausted"} ->
                    Die("retries") /\ UNCHANGED seq
               [] o = "return" ->
                    /\ scan' = NoScan
                    /\ IF report_length_ok(m.payload)
                       THEN wpc' = "append" /\ seq' = m.payload
                       ELSE UNCHANGED <<wpc, seq>>
                    /\ UNCHANGED <<wfail, tries>>
    /\ UNCHANGED <<port, maxlen, running, stopped, buffer, serial, started,
                   tx, step, cpc, lastCall, gpc, got, pushed,
                   npush, closes, harnessVars>>

\* read = Reading.new_from_bytes(seq); self.buffer.append(read)
WAppend ==
    /\ wpc = "append"
    /\ LET read == new_from_bytes(seq) IN
        /\ buffer' = deque_append(buffer, read, maxlen)
        /\ pushed' = IF Len(pushed) = MaxCap
                     THEN Append(Tail(pushed), read)
                     ELSE Append(pushed, read)
    /\ npush' = Min(npush + 1, MaxCap + 1)
    /\ seq' = <<>>
    /\ wpc' = "loop"
    /\ UNCHANGED <<port, maxlen, running, stopped, serial, started, rx, tx,
                   step, tries, scan, wfail, cpc, lastCall,
                   gpc, got, closes, harnessVars>>

\* (mutation) run() returns without setting self.stopped
WStopForgets ==
    /\ wpc = "stopping"
    /\ wpc' = "done"
    /\ UNCHANGED <<port, maxlen, running, stopped, buffer, serial, started,
                   rx, tx, step, tries, scan, seq, wfail, cpc, lastCall,
                   gpc, got, pushed, npush, closes, harnessVars>>

\* self.stopped=True, the last statement of run()
WStop ==
    /\ wpc = "stopping"
    /\ stopped' = TRUE
    /\ wpc' = "done"
    /\ UNCHANGED <<port, maxlen, running, buffer, serial, started, rx, tx,
                   step, tries, scan, seq, wfail, cpc, lastCall,
                   gpc, got, pushed, npush, closes, harnessVars>>

Worker ==
    \/ WSetRunning
    \/ WClearStopped
    \/ WTx
    \/ WRx
    \/ WSettle
    \/ WLoopCheck
    \/ WReadReport
    \/ WAppend
    \/ WStop

\* the worker thread still executes run()
WorkerAlive == wpc \notin {"unstarted", "done", "dead"}

InReportingLoop == wpc \in {"loop", "read", "append"}

---------------------------------------------------------------------------
(* Codec harness: _tx_sequence, _read_any_message and new_from_bytes called *)
(* directly on inputs drawn from bounded sets, the port looped back.        *)

SeqsUpTo(S, n) == UNION {[1..k -> S] : k \in 0..n}

\* A well-formed frame of the given kind on the wire
Frame(kind, payload) ==
    Preamble(kind) \o <<Len(payload) % 256, Len(payload) \div 256>>
        \o payload \o Postamble(kind)

ContainsPreamble(s) ==
    \E i \in 1..Len(s) :
        i + 3 <= Len(s)
        /\ SubSeq(s, i, i + 3) \in {COMMAND_PREAMBLE, REPORTING_PREAMBLE}

BodyBytes == {0, 4, 244, 253, 255}
LongBodies == {[i \in 1..n |-> 0] : n \in {255, 256, 300}}
Bodies == SeqsUpTo(BodyBytes, MaxBody) \cup LongBodies

NoiseBytes == {0, 244, 250, 251, 252, 253}
Noises == {n \in SeqsUpTo(NoiseBytes, MaxNoise) : ~ContainsPreamble(n)}
FramePayloads == {<<>>, <<255, 1>>, <<253, 252, 251, 250, 0>>}

TailBytes == {0, 1, 2}
Tails == SeqsUpTo(TailBytes, MaxTail)

ExamplePayload ==
    <<0, 50, 0, 75, 30, 0, 100, 0, 200, 0, 10>> \o [i \in 1..24 |-> 0]
RampPayload == [i \in 1..35 |-> i]
DecodePayloads == {ExamplePayload, RampPayload, [i \in 1..35 |-> 255]}

HarnessInputs ==
    {[test |-> "roundtrip", kind |-> "command", a |-> <<>>, b |-> b] :
        b \in Bodies}
    \cup {[test |-> "noise", kind |-> k, a |-> n, b |-> p] :
        k \in {"command", "report"}, n \in Noises, p \in FramePayloads}
    \cup {[test |-> "tail", kind |-> k, a |-> <<>>, b |-> t] :
        k \in {"command", "report"}, t \in Tails}
    \cup {[test |-> "decode", kind |-> "report", a |-> <<>>, b |-> p] :
        p \in DecodePayloads}

NoInput == [test |-> "none", kind |-> "command", a |-> <<>>, b |-> <<>>]

\* _tx_sequence(body) on the looped-back port
HarnessTx ==
    /\ hpc = "start" /\ hin.test = "roundtrip"
    /\ tx' = tx \o tx_sequence(hin.b)
    /\ hpc' = "sent"
    /\ UNCHANGED <<driverVars, rx, seq, hin, hout>>

\* the loopback delivers what was written
HarnessLoopback ==
    /\ hpc = "sent"
    /\ rx' = rx \o tx
    /\ hpc' = "fed"
    /\ UNCHANGED <<driverVars, tx, seq, hin, hout>>

\* the stream delivers the bytes under test and then falls silent
HarnessFeed ==
    /\ hpc = "start" /\ hin.test \in {"noise", "tail"}
    /\ rx' = IF hin.test = "noise"
             THEN hin.a \o Frame(hin.kind, hin.b)
             ELSE Preamble(hin.kind) \o hin.b
    /\ hpc' = "fed"
    /\ UNCHANGED <<driverVars, tx, seq, hin, hout>>

\* one call of _read_any_message
HarnessRead ==
    /\ hpc = "fed"
    /\ LET m == read_any_message(rx, NoScan) IN
        /\ hout' = m
        /\ rx' = m.rest
    /\ hpc' = "read"
    /\ UNCHANGED <<driverVars, tx, seq, hin>>

\* one call of Reading.new_from_bytes
HarnessDecode ==
    /\ hpc = "start" /\ hin.test = "decode"
    /\ hout' = new_from_bytes(hin.b)
    /\ hpc' = "decoded"
    /\ UNCHANGED <<driverVars, rx, tx, seq, hin>>

DriverInit ==
    /\ port \in {"COM7", "test"}
    /\ maxlen \in {0, MaxCap}
    /\ running = FALSE
    /\ stopped = TRUE
    /\ buffer = <<>>
    /\ serial = "none"
    /\ started = FALSE
    /\ rx = <<>>
    /\ tx = <<>>
    /\ wpc = "unstarted"
    /\ step = 1
    /\ tries = 0
    /\ scan = NoScan
    /\ seq = <<>>
    /\ wfail = ""
    /\ cpc = "idle"
    /\ lastCall = "none"
    /\ gpc = "idle"
    /\ got = <<>>
    /\ pushed = <<>>
    /\ npush = 0
    /\ closes = 0

CodecInit ==
    /\ DriverInit
    /\ port = "COM7"
    /\ maxlen = MaxCap
    /\ hpc = "start"
    /\ hin \in HarnessInputs
    /\ hout = NoMessage

CodecNext ==
    \/ HarnessTx
    \/ HarnessLoopback
    \/ HarnessFeed
    \/ HarnessRead
    \/ HarnessDecode

CodecSpec == CodecInit /\ [][CodecNext]_vars

---------------------------------------------------------------------------
(* The consumer thread: __enter__ and __exit__                             *)

\* (mutation) __enter__ refuses only while the port is open: a driver whose
\* port was closed, or never opened, launches its thread again
EnterRelaunches ==
    /\ cpc = "idle"
    /\ IF serial = "open"
       THEN /\ lastCall' = "enter_raised"
            /\ UNCHANGED <<serial, started, wpc, step>>
       ELSE /\ serial' = IF port = "test" THEN "none" ELSE "open"
            /\ started' = TRUE
            /\ wpc' = "run"
            /\ step' = 1
            /\ lastCall' = "enter_ok"
    /\ UNCHANGED <<port, maxlen, running, stopped, buffer, rx, tx,
                   tries, scan, seq, wfail, cpc, gpc, got, pushed,
                   npush, closes, harnessVars>>

\* __enter__: raises when self.serial is not None; opens the port unless
\* the port is "test"; then Thread.start(), which raises when the thread
\* was started before
Enter ==
    /\ cpc = "idle"
    /\ IF serial # "none" \/ started
       THEN /\ lastCall' = "enter_raised"
            /\ UNCHANGED <<serial, started, wpc>>
       ELSE /\ serial' = IF port = "test" THEN "none" ELSE "open"
            /\ started' = TRUE
            /\ wpc' = "run"
            /\ lastCall' = "enter_ok"
    /\ UNCHANGED <<port, maxlen, running, stopped, buffer, rx, tx, step,
                   tries, scan, seq, wfail, cpc, gpc, got, pushed,
                   npush, closes, harnessVars>>

\* __exit__ up to its wait loop: raises when self.running is false, else
\* sets self.running=False and starts the 20 s deadline
ExitRequest ==
    /\ cpc = "idle"
    /\ IF ~running
       THEN /\ lastCall' = "exit_gone"
            /\ UNCHANGED <<running, cpc>>
       ELSE /\ running' = FALSE
            /\ cpc' = "exit_wait"
            /\ UNCHANGED lastCall
    /\ UNCHANGED <<port, maxlen, stopped, buffer, serial, started, rx, tx,
                   wpc, step, tries, scan, seq, wfail, gpc,
                   got, pushed, npush, closes, harnessVars>>

\* the wait loop finds the deadline passed and raises
ExitTimeout ==
    /\ cpc = "exit_wait"
    /\ cpc' = "idle"
    /\ lastCall' = "exit_timeout"
    /\ UNCHANGED <<port, maxlen, running, stopped, buffer, serial, started,
                   rx, tx, wpc, step, tries, scan, seq, wfail,
                   gpc, got, pushed, npush, closes, harnessVars>>

\* the wait loop finds self.stopped true and breaks
ExitSeeStopped ==
    /\ cpc = "exit_wait"
    /\ stopped
    /\ cpc' = "exit_close"
    /\ UNCHANGED <<port, maxlen, running, stopped, buffer, serial, started,
                   rx, tx, wpc, step, tries, scan, seq, wfail,
                   lastCall, gpc, got, pushed, npush, closes, harnessVars>>

\* self.serial.close(); with self.serial None the call raises
ExitClose ==
    /\ cpc = "exit_close"
    /\ cpc' = "idle"
    /\ IF serial = "none"
       THEN /\ lastCall' = "exit_error"
            /\ UNCHANGED <<serial, closes>>
       ELSE /\ serial' = "closed"
            /\ closes' = closes + 1
            /\ lastCall' = "exit_ok"
    /\ UNCHANGED <<port, maxlen, running, stopped, buffer, started, rx, tx,
                   wpc, step, tries, scan, seq, wfail, gpc,
                   got, pushed, npush, harnessVars>>

Consumer ==
    \/ Enter
    \/ ExitRequest
    \/ ExitTimeout
    \/ ExitSeeStopped
    \/ ExitClose

---------------------------------------------------------------------------
(* A consumer thread calling get_latest                                    *)

GetLatestCall ==
    /\ gpc = "idle"
    /\ gpc' = "waiting"
    /\ UNCHANGED <<port, maxlen, running, stopped, buffer, serial, started,
                   rx, tx, wpc, step, tries, scan, seq, wfail, cpc,
                   lastCall, got, pushed, npush, closes,
                   harnessVars>>

\* (mutation) get_latest does not wait for the buffer to fill
GetLatestCheckNoWait ==
    /\ gpc = "waiting"
    /\ gpc' = "fetch"
    /\ UNCHANGED <<port, maxlen, running, stopped, buffer, serial, started,
                   rx, tx, wpc, step, tries, scan, seq, wfail, cpc,
                   lastCall, got, pushed, npush, closes, harnessVars>>

\* "while len(self.buffer)==0" found false
GetLatestCheck ==
    /\ gpc = "waiting"
    /\ Len(buffer) # 0
    /\ gpc' = "fetch"
    /\ UNCHANGED <<port, maxlen, running, stopped, buffer, serial, started,
                   rx, tx, wpc, step, tries, scan, seq, wfail, cpc,
                   lastCall, got, pushed, npush, closes,
                   harnessVars>>

\* return self.buffer[-1]; on an empty deque the index raises
GetLatestReturn ==
    /\ gpc = "fetch"
    /\ IF Len(buffer) = 0
       THEN gpc' = "raised" /\ UNCHANGED got
       ELSE gpc' = "returned" /\ got' = <<latest(buffer)>>
    /\ UNCHANGED <<port, maxlen, running, stopped, buffer, serial, started,
                   rx, tx, wpc, step, tries, scan, seq, wfail, cpc,
                   lastCall, pushed, npush, closes,
                   harnessVars>>

Getter ==
    \/ GetLatestCall
    \/ GetLatestCheck
    \/ GetLatestReturn

---------------------------------------------------------------------------
(* The sensor                                                              *)

ReportA == <<0, 50, 0, 75, 30, 0, 100, 0, 200, 0, 10>> \o [i \in 1..24 |-> 0]
ReportB == [i \in 1..35 |-> i]
ReportLong == [i \in 1..36 |-> 7]

\* What an arbitrary sensor or line may deliver in one piece: the acks of
\* the handshake (each of them a wrong ack for the other steps, and any of
\* them a firmware reply), reports of 35 bytes and of another length, a
\* frame whose postamble is of the other kind (and a zero byte after it), a
\* frame cut short, a stray preamble byte, and two frames back to back.
Chunks ==
    {Frame("command", RequiredAck(s)) : s \in {1, 2, 5, 6}}
    \cup {Frame("report", ReportA),
          Frame("report", ReportB),
          Frame("report", ReportLong),
          COMMAND_PREAMBLE \o <<4, 0>> \o RequiredAck(2)
              \o REPORTING_POSTAMBLE \o <<0>>,
          REPORTING_PREAMBLE \o <<35, 0, 1, 2, 3>>,
          <<253>>,
          Frame("report", ReportA) \o Frame("command", RequiredAck(2))}

\* the sensor delivers a chunk into the open port's input buffer (what
\* arrives once run() has ended is never read and is left out)
DeviceSend ==
    /\ serial = "open"
    /\ WorkerAlive
    /\ Len(rx) <= MaxBacklog
    /\ \E c \in Chunks : rx' = rx \o c
    /\ UNCHANGED <<driverVars, tx, seq, harnessVars>>

Init ==
    /\ DriverInit
    /\ hpc = "off"
    /\ hin = NoInput
    /\ hout = NoMessage

Next ==
    \/ Worker
    \/ Consumer
    \/ Getter
    \/ DeviceSend

Spec == Init /\ [][Next]_vars

---------------------------------------------------------------------------
(* A sensor that behaves: it acknowledges the command it was sent and      *)
(* streams 35-byte reports.  LiveSpec runs the driver against it under the *)
(* fairness the thread scheduler gives: every thread that can take a step  *)
(* eventually does, and the sensor keeps reporting.  The expiry of the     *)
(* 20 s deadline of __exit__ is left to chance.                            *)

FirmwareReply == <<160, 1, 0, 0, 0, 1, 7, 1>>

\* the ack of the command the worker is waiting on
DeviceAck ==
    /\ serial = "open"
    /\ wpc = "rx"
    /\ rx = <<>>
    /\ rx' = Frame("command",
                   IF step = 4 THEN FirmwareReply ELSE RequiredAck(step))
    /\ UNCHANGED <<driverVars, tx, harnessVars>>

\* the next report
DeviceReport ==
    /\ serial = "open"
    /\ WorkerAlive
    /\ rx = <<>>
    /\ rx' = Frame("report", ReportA)
    /\ UNCHANGED <<driverVars, tx, harnessVars>>

LiveNext ==
    \/ Worker
    \/ Consumer
    \/ Getter
    \/ DeviceAck
    \/ DeviceReport

LiveSpec ==
    /\ Init
    /\ [][LiveNext]_vars
    /\ WF_vars(Worker)
    /\ WF_vars(ExitSeeStopped)
    /\ WF_vars(ExitClose)
    /\ WF_vars(GetLatestCheck)
    /\ WF_vars(GetLatestReturn)
    /\ WF_vars(DeviceReport)

\* The same sensor on a line that may fall silent at any moment: the threads
\* are scheduled fairly, the sensor owes nothing.
QuietLineSpec ==
    /\ Init
    /\ [][LiveNext]_vars
    /\ WF_vars(Worker)
    /\ WF_vars(ExitSeeStopped)
    /\ WF_vars(ExitClose)
    /\ WF_vars(GetLatestCheck)
    /\ WF_vars(GetLatestReturn)

---------------------------------------------------------------------------
(* Properties of the codec, checked under CodecSpec                        *)

\* C1 (round trip): after _tx_sequence(body) has been written and looped
\* back, one call of _read_any_message returns the command preamble, a
\* payload equal to body and the command postamble, and leaves nothing
\* unread.
C1_RoundTrip ==
    (hpc = "read" /\ hin.test = "roundtrip") =>
        /\ hout.status = "ok"
        /\ hout.preamble = <<253, 252, 251, 250>>
        /\ hout.payload = hin.b
        /\ hout.postamble = <<4, 3, 2, 1>>
        /\ rx = <<>>

\* a body whose length needs both length bytes has made the round trip
C1_Witness ==
    /\ hpc = "read" /\ hin.test = "roundtrip"
    /\ Len(hin.b) > 256
    /\ hout.status = "ok"

\* the scanner is back at the start of its search once it has read noise:
\* no preamble is partly matched and none was completed
IdleAfter(noise) == scan_preamble(noise, 1, 0, <<>>).no = 0

FrameReturned ==
    /\ hout.status = "ok"
    /\ hout.preamble = Preamble(hin.kind)
    /\ hout.payload = hin.b
    /\ hout.postamble = Postamble(hin.kind)

\* C2 as stated (noise tolerance): whatever noise without a complete
\* preamble precedes a valid frame, _read_any_message returns that frame
\* with its payload unchanged.
C2_AnyNoise ==
    (hpc = "read" /\ hin.test = "noise") => FrameReturned

\* C2 as amended: noise that leaves the scanner with no partly matched
\* preamble when the frame begins (in particular, noise holding neither
\* 0xFD nor 0xF4) does not change the frame returned; noise that holds no
\* first preamble byte always leaves the scanner so.
C2_NoiseTolerance ==
    /\ (hpc = "read" /\ hin.test = "noise" /\ IdleAfter(hin.a))
            => FrameReturned
    /\ (hin.test = "noise"
        /\ \A i \in 1..Len(hin.a) : hin.a[i] \notin {253, 244})
            => IdleAfter(hin.a)

\* noise holding a first preamble byte, the scanner idle again after it,
\* and the frame behind it returned
C2_Witness ==
    /\ hpc = "read" /\ hin.test = "noise"
    /\ hin.a = <<253, 0, 244, 252>>
    /\ hin.kind = "report"
    /\ hin.b = <<255, 1>>
    /\ FrameReturned

\* the length announced by the two bytes that follow the preamble
TailLength == IF Len(hin.b) < 2 THEN 0 ELSE hin.b[1] + 256 * hin.b[2]

\* C3 (length integrity): with a preamble matched, _read_any_message raises
\* when the stream ends before 2 length bytes, before the announced number
\* of payload bytes, or before 4 postamble bytes; otherwise it returns the
\* announced number of payload bytes, exactly those that follow the length.
C3_LengthIntegrity ==
    (hpc = "read" /\ hin.test = "tail") =>
        /\ Len(hin.b) < 2 => hout.status = "length"
        /\ (Len(hin.b) >= 2 /\ Len(hin.b) < 2 + TailLength)
                => hout.status = "payload"
        /\ (Len(hin.b) >= 2 + TailLength /\ Len(hin.b) < 6 + TailLength
            /\ Len(hin.b) >= 2)
                => hout.status = "postamble"
        /\ Len(hin.b) >= 6 + TailLength =>
                /\ hout.status = "ok"
                /\ hout.payload = SubSeq(hin.b, 3, 2 + TailLength)
        /\ hout.status = "ok" => Len(hout.payload) = TailLength
        /\ hout.status \in {"ok", "length", "payload", "postamble"}

\* a payload that came one byte short of the announced two was refused
C3_Witness ==
    /\ hpc = "read" /\ hin.test = "tail"
    /\ Len(hin.b) = 3 /\ TailLength = 2
    /\ hout.status = "payload"

Decoded(p) == hpc = "decoded" /\ hin.b = p

ExampleCommonFields ==
    /\ hout.target_state = 0
    /\ hout.moving_target_range = 50
    /\ hout.moving_target_energy = 75
    /\ hout.static_target_range = 30
    /\ hout.static_target_energy = 100
    /\ hout.moving = [i \in 1..12 |-> 0]
    /\ hout.static = [i \in 1..12 |-> 0]

\* C10 as stated (decoder correctness): the payload 00 32 00 4B 1E 00 64 00
\* C8 00 0A and 24 zero bytes decodes to detection_distance = 200 and
\* max_moving_distance = 10 besides the other fields.
C10_ExampleAsStated ==
    Decoded(ExamplePayload) =>
        /\ ExampleCommonFields
        /\ hout.detection_distance = 200
        /\ hout.max_moving_distance = 10

\* C10 as amended: that payload decodes to target_state 0, moving range
\* 50, moving energy 75, static range 30, static energy 100, both gate
\* arrays zero, and, bytes 7..8 being 00 C8 and bytes 9 and 10 being 00 0A,
\* to detection_distance = 51200, max_moving_distance = 0 and
\* max_static_distance = 10; every field is read at its stated offset.
C10_DecoderCorrectness ==
    /\ Decoded(ExamplePayload) =>
        /\ ExampleCommonFields
        /\ hout.detection_distance = 51200
        /\ hout.max_moving_distance = 0
        /\ hout.max_static_distance = 10
    /\ Decoded(RampPayload) =>
        /\ hout.target_state = 1
        /\ hout.moving_target_range = 2 + 256 * 3
        /\ hout.moving_target_energy = 4
        /\ hout.static_target_range = 5 + 256 * 6
        /\ hout.static_target_energy = 7
        /\ hout.detection_distance = 8 + 256 * 9
        /\ hout.max_moving_distance = 10
        /\ hout.max_static_distance = 11
        /\ hout.moving = [i \in 1..12 |-> 11 + i]
        /\ hout.static = [i \in 1..12 |-> 23 + i]

\* the example payload has been decoded
C10_Witness ==
    /\ Decoded(ExamplePayload)
    /\ hout.detection_distance = 51200

---------------------------------------------------------------------------
(* Properties of the driver, checked under Spec and LiveSpec               *)

\* the frame a _read_any_message call of the worker would return now
Incoming == read_any_message(rx, scan)

\* the worker can read, and the bytes received hold a whole frame with the
\* given preamble and postamble kinds
FrameIncoming(pre, post) ==
    /\ serial = "open" /\ rx # <<>>
    /\ Incoming.status = "ok"
    /\ Incoming.preamble = Preamble(pre)
    /\ Incoming.postamble = Postamble(post)

\* a step in which the worker read from the port
WorkerRead == Len(rx') < Len(rx) /\ wpc \in {"rx", "read"}

\* the commands of handshake steps 1..n as they appear on the wire
RECURSIVE CommandsUpTo(_)
CommandsUpTo(n) ==
    IF n = 0 THEN <<>> ELSE CommandsUpTo(n - 1) \o tx_sequence(Command(n))

\* the request of the step in progress fails on this read: a short read,
\* or the last permitted frame is not of the command kind
RequestFails ==
    /\ wpc = "rx" /\ serial = "open" /\ rx # <<>>
    /\ \/ Incoming.status \in {"length", "payload", "postamble"}
       \/ /\ Incoming.status = "ok"
          /\ ~(Incoming.preamble = COMMAND_PREAMBLE
               /\ Incoming.postamble = COMMAND_POSTAMBLE)
          /\ tries + 1 = Retries(step)

\* C4 (handshake fatality): when a step with a required ack (1, 2, 3, 5, 6)
\* reads a command-kind frame whose payload is not exactly the required
\* bytes, or when the request of a step fails, run() ends there; once it has
\* ended that way it transmits nothing more, never enters the reporting loop
\* and pushes no reading: the wire holds the commands of the steps up to the
\* failed one and no other.
C4_HandshakeFatality ==
    /\ [][(/\ wpc = "rx" /\ step # 4
           /\ FrameIncoming("command", "command")
           /\ Incoming.payload # RequiredAck(step)
           /\ WorkerRead)
          => (wpc' = "dead" /\ wfail' = "ack" /\ tx' = tx)]_vars
    /\ [][(RequestFails /\ WorkerRead)
          => (wpc' = "dead" /\ tx' = tx)]_vars
    /\ [][wpc = "dead"
          => (wpc' = "dead" /\ tx' = tx /\ buffer' = buffer
              /\ npush' = npush)]_vars
    /\ [][(wpc' = "dead" /\ wfail' \in {"ack", "retries", "framing"}
           /\ step' <= 6)
          => (tx' = CommandsUpTo(step') /\ npush' = 0 /\ buffer' = <<>>)]_vars

\* the engineering-mode step got a wrong ack: five commands are on the wire
\* and the sixth never follows
C4_Witness ==
    /\ wpc = "dead" /\ wfail = "ack" /\ step = 5
    /\ tx = CommandsUpTo(5)
    /\ buffer = <<>>

\* C5 (release guarantee): whenever an __exit__ that followed a successful
\* __enter__ on a real port has finished, by returning or by raising, the worker no longer
\* runs and the port has been closed.
C5_ReleaseGuarantee ==
    (port = "COM7" /\ started /\ cpc = "idle"
     /\ lastCall \in {"exit_ok", "exit_gone", "exit_timeout", "exit_error"})
        => (~WorkerAlive /\ serial = "closed")

StopRequestedInLoop == cpc = "exit_wait" /\ InReportingLoop

\* C6 (normal shutdown): with reports arriving, a stop requested while the
\* worker is in the reporting loop leads to the worker leaving the loop with
\* self.stopped set, and to __exit__ finishing; unless the deadline expired
\* first, __exit__ returns normally with the worker ended and the port
\* closed; the port is never closed twice.
C6_NormalShutdown ==
    /\ StopRequestedInLoop ~> (wpc = "done" /\ stopped)
    /\ StopRequestedInLoop ~>
        (/\ cpc = "idle"
         /\ \/ lastCall = "exit_timeout"
            \/ /\ lastCall = "exit_ok"
               /\ wpc = "done" /\ stopped
               /\ serial = "closed" /\ closes = 1)
    /\ [][closes' <= 1
          /\ (InReportingLoop /\ wpc' = "stopping" => ~running)]_vars

\* __exit__ has returned normally after stopping a worker that had pushed
C6_Witness ==
    /\ cpc = "idle" /\ lastCall = "exit_ok"
    /\ wpc = "done" /\ stopped /\ ~running
    /\ serial = "closed" /\ closes = 1
    /\ npush >= 1

\* the last n elements of s
LastN(s, n) == SubSeq(s, Len(s) - n + 1, Len(s))

BufferIsRecent ==
    /\ Len(buffer) = Min(npush, maxlen)
    /\ Len(buffer) <= Len(pushed)
    /\ buffer = LastN(pushed, Len(buffer))

\* C7 (buffer eviction): after k appends by run() into a buffer of
\* capacity N the buffer holds min(k, N) readings, they are the most
\* recent min(k, N) readings appended, in arrival order, and a get_latest
\* call that returns, returns the reading appended last.
C7_BufferEviction ==
    /\ BufferIsRecent
    /\ [][BufferIsRecent'
          /\ (gpc' = "returned" /\ gpc # "returned"
              => got' = <<pushed[Len(pushed)]>>)]_vars

\* more readings than the capacity were appended, two different ones are
\* held in arrival order, and get_latest has returned
C7_Witness ==
    /\ maxlen = MaxCap /\ npush = MaxCap + 1
    /\ Len(buffer) = MaxCap
    /\ buffer[1] # buffer[Len(buffer)]
    /\ gpc = "returned" /\ got = <<buffer[Len(buffer)]>>

\* C8 as stated (get_latest suspends until data exists): whatever capacity
\* the constructor accepted, a get_latest call pending once a reading has
\* been pushed eventually returns.
C8_ReturnsForAnyCapacity ==
    (gpc = "waiting" /\ npush >= 1) ~> (gpc = "returned")

\* C8 as amended: a get_latest call never gets past its wait before run()
\* has appended a first reading; with a capacity of at least 1, a call
\* pending once a reading has been appended eventually returns a reading;
\* the call changes nothing the worker reads or writes.
C8_GetLatestSuspends ==
    /\ [](gpc \in {"fetch", "returned", "raised"} => npush >= 1)
    /\ [](gpc # "raised")
    /\ (maxlen >= 1 /\ gpc = "waiting" /\ npush >= 1)
            ~> (gpc = "returned" /\ Len(got) = 1)
    /\ [][gpc' # gpc =>
            UNCHANGED <<running, stopped, buffer, serial, rx, tx, wpc, step,
                        tries, scan, seq, wfail, pushed, npush>>]_vars

\* a call made before the first reading has returned one
C8_Witness ==
    /\ gpc = "returned" /\ Len(got) = 1
    /\ maxlen >= 1 /\ npush >= 1

\* C9 (report length gate): the worker goes on to append only with a
\* payload of exactly 35 bytes taken from a frame with the report preamble
\* and the report postamble; the buffer changes only by appending the
\* decoding of that payload; a report frame of any other payload length is
\* consumed without an append and without ending run(), the worker still
\* in _get_next_reading.
C9_ReportLengthGate ==
    /\ [][(wpc' = "append" /\ wpc # "append")
          => (/\ FrameIncoming("report", "report")
              /\ Len(Incoming.payload) = 35
              /\ seq' = Incoming.payload)]_vars
    /\ [][buffer' # buffer
          => (/\ wpc = "append" /\ Len(seq) = 35
              /\ buffer'[Len(buffer')] = new_from_bytes(seq))]_vars
    /\ [][(/\ wpc = "read"
           /\ FrameIncoming("report", "report")
           /\ Len(Incoming.payload) # 35)
          => (/\ wpc' = "read" /\ wfail' = ""
              /\ buffer' = buffer /\ npush' = npush
              /\ (WorkerRead => rx' = Incoming.rest))]_vars

\* readings are held and the worker, in _get_next_reading, has a whole
\* report frame of 36 payload bytes to read
C9_Witness ==
    /\ wpc = "read" /\ npush >= 1 /\ buffer # <<>>
    /\ rx = Frame("report", ReportLong)

\* an __enter__ call has just finished
EnterFinished ==
    /\ cpc = "idle" /\ cpc' = "idle"
    /\ lastCall' \in {"enter_ok", "enter_raised"}
    /\ lastCall' # lastCall

\* C11 (single start): the worker is launched at most once: only by an
\* __enter__ on a driver never started, and a started driver stays started;
\* every __enter__ on a started driver, its port still open or closed,
\* raises and changes nothing of the driver; a worker that has ended stays
\* ended.
C11_SingleStart ==
    /\ [][(wpc' = "run" /\ wpc # "run")
          => (wpc = "unstarted" /\ ~started /\ started')]_vars
    /\ [][(started => started')
          /\ (wpc # "unstarted" => wpc' # "unstarted")]_vars
    /\ [][(started /\ EnterFinished)
          => (/\ lastCall' = "enter_raised"
              /\ UNCHANGED <<port, maxlen, running, stopped, buffer, serial,
                             started, rx, tx, wpc, step, tries, scan, seq,
                             wfail, cpc, gpc, got, pushed, npush,
                             closes>>)]_vars
    /\ [][(wpc \in {"done", "dead"}) => (wpc' = wpc)]_vars

\* __enter__ was called again after __exit__ had stopped the worker and
\* closed the port, and it raised
C11_Witness ==
    /\ started /\ lastCall = "enter_raised" /\ cpc = "idle"
    /\ wpc = "done" /\ stopped /\ serial = "closed" /\ closes = 1

\* run() has ended in a handshake step: a wrong ack, the retries of a
\* request used up, or a short read
HandshakeFailed ==
    /\ wpc = "dead" /\ step <= 6
    /\ wfail \in {"ack", "retries", "framing"}

\* C12 (handshake failure is surfaced): once a handshake step has failed,
\* the driver reaches the stopped state: self.stopped becomes true, so that
\* an __exit__ waiting on it ends without a timeout.
C12_HandshakeFailureSurfaced == HandshakeFailed ~> stopped

\* the six handshake commands in the order run() calls for them
HandshakeCommands ==
    << <<255, 0, 1, 0>>, <<163, 0>>, <<255, 0, 1, 0>>,
       <<160, 0>>, <<98, 0>>, <<254, 0>> >>

\* the first n handshake commands, framed, as one byte stream
RECURSIVE WireUpTo(_)
WireUpTo(n) ==
    IF n = 0 THEN <<>>
    ELSE WireUpTo(n - 1) \o Frame("command", HandshakeCommands[n])

\* C13 (handshake order): what the worker has transmitted is always the
\* first commands of FF 00 01 00, A3 00, FF 00 01 00, A0 00, 62 00, FE 00,
\* each once and in this order: all six when it is in or past the reporting
\* loop, those up to the step in progress while it awaits an ack; every
\* transmission appends the command of the step in progress; the worker
\* moves to the next step, one at a time, only on reading a command-kind
\* frame, whose payload is the required ack where the step has one.
C13_HandshakeOrder ==
    /\ []((wpc \in {"loop", "read", "append", "stopping", "done"})
            => (step = 7 /\ tx = WireUpTo(6)))
    /\ []((wpc = "rx") => (step <= 6 /\ tx = WireUpTo(step)))
    /\ []((wpc \in {"tx", "settle"})
            => (step <= 6 /\ tx = WireUpTo(step - 1)))
    /\ [][(tx' # tx)
          => (/\ wpc = "tx" /\ wpc' = "rx" /\ step' = step
              /\ tx' = tx \o Frame("command", HandshakeCommands[step]))]_vars
    /\ [][(step' # step)
          => (/\ step' = step + 1
              /\ wpc = "rx"
              /\ FrameIncoming("command", "command")
              /\ (step # 4 => Incoming.payload = RequiredAck(step))
              /\ tx' = tx)]_vars

\* the worker reads reports, the six commands and nothing else on the wire
C13_Witness ==
    /\ wpc = "read" /\ step = 7 /\ npush >= 1
    /\ tx = WireUpTo(6)
    /\ Len(tx) = 76

\* the bytes received end inside a frame: the read of the length, of the
\* payload or of the postamble will come back short
FramingErrorIncoming ==
    /\ serial = "open" /\ rx # <<>>
    /\ Incoming.status \in {"length", "payload", "postamble"}

\* C14 (framing errors are retried): a short read on an attempt of a
\* handshake request that has attempts left does not fail the request: the
\* worker is still in that request afterwards.
C14_FramingErrorsRetried ==
    [][(/\ wpc = "rx"
        /\ FramingErrorIncoming
        /\ tries + 1 < Retries(step)
        /\ WorkerRead)
       => (wpc' = "rx" /\ wfail' = "")]_vars

\* the request the worker is in: a handshake step's _rx_sequence, or the
\* one of _get_next_reading
InRequest == wpc \in {"rx", "read"}

ExpectedKind == IF wpc = "read" THEN "report" ELSE "command"

UnexpectedKind == IF wpc = "read" THEN "command" ELSE "report"

\* the retries argument of the request in progress
Attempts == IF wpc = "rx" THEN Retries(step) ELSE 1

\* C15 (bounded retries): `tries`, the number of frames the request in
\* progress has consumed, stays below its retries r.  On a well-formed
\* frame of the expected kind the request returns that frame's payload and
\* leaves every byte after the frame unread.  On a well-formed frame of the
\* other kind it consumes that frame only, transmits nothing, and goes on
\* to the next attempt if one is left, else fails: after exactly r frames.
C15_BoundedRetries ==
    /\ [](InRequest => tries < Attempts)
    /\ [][(/\ InRequest
           /\ FrameIncoming(ExpectedKind, ExpectedKind)
           /\ WorkerRead)
          => (/\ rx' = Incoming.rest
              /\ tries' = 0
              /\ tx' = tx
              /\ (wpc = "rx" =>
                    IF ack_accepted(step, Incoming.payload)
                    THEN step' = step + 1 /\ wpc' = AfterStep(step)
                    ELSE wpc' = "dead" /\ wfail' = "ack")
              /\ (wpc = "read" =>
                    IF Len(Incoming.payload) = 35
                    THEN wpc' = "append" /\ seq' = Incoming.payload
                    ELSE wpc' = "read"))]_vars
    /\ [][(/\ InRequest
           /\ FrameIncoming(UnexpectedKind, UnexpectedKind)
           /\ WorkerRead)
          => (/\ rx' = Incoming.rest
              /\ tx' = tx
              /\ IF tries + 1 < Attempts
                 THEN tries' = tries + 1 /\ wpc' = wpc /\ step' = step
                 ELSE tries + 1 = Attempts
                      /\ wpc' = "dead" /\ wfail' = "retries")]_vars
    /\ [][(tries' # tries)
          => (\/ tries' = 0
              \/ /\ tries' = tries + 1 /\ WorkerRead
                 /\ Incoming.status = "ok"
                 /\ rx' = Incoming.rest /\ tx' = tx)]_vars

\* the reset step has dropped a report, its first attempt, and the ack that
\* followed the report back to back is still unread
C15_Witness ==
    /\ wpc = "rx" /\ step = 2 /\ tries = 1
    /\ rx = Frame("command", RequiredAck(2))

\* C16 (wrong-kind frames are dropped in both directions): a well-formed
\* report frame read while a handshake step awaits its ack, the step having
\* attempts left, is consumed and the step goes on awaiting its ack; and a
\* well-formed command-kind frame read while the reporting loop awaits a
\* report is consumed and the worker goes on reading, without failing.
C16_WrongKindDropped ==
    /\ [][(/\ wpc = "rx"
           /\ FrameIncoming("report", "report")
           /\ tries + 1 < Retries(step)
           /\ WorkerRead)
          => (/\ rx' = Incoming.rest
              /\ wpc' = "rx" /\ step' = step
              /\ wfail' = "")]_vars
    /\ [][(/\ wpc = "read"
           /\ FrameIncoming("command", "command")
           /\ WorkerRead)
          => (/\ rx' = Incoming.rest
              /\ wpc' = "read"
              /\ wfail' = "")]_vars

\* a whole frame is there to read whose postamble is not the one of its
\* preamble's kind
MixedFrameIncoming ==
    /\ serial = "open" /\ rx # <<>>
    /\ Incoming.status = "ok"
    /\ \/ /\ Incoming.preamble = COMMAND_PREAMBLE
          /\ Incoming.postamble # COMMAND_POSTAMBLE
       \/ /\ Incoming.preamble = REPORTING_PREAMBLE
          /\ Incoming.postamble # REPORTING_POSTAMBLE

\* _rx_sequence has returned a payload in this step, as far as the worker
\* shows it: the handshake step went on to compare it, or the reporting
\* loop took it for a report
PayloadReturned ==
    \/ /\ wpc = "rx"
       /\ \/ step' = step + 1
          \/ wpc' = "dead" /\ wfail' = "ack"
    \/ /\ wpc = "read"
       /\ wpc' = "append"

\* C17 (kind pairing): a payload is returned only from a frame whose
\* preamble and postamble are both of the expected kind; a frame whose
\* postamble is not of its preamble's kind is consumed as a wrong-kind
\* attempt and its payload goes nowhere, in the handshake and in the
\* reporting loop.
C17_KindPairing ==
    /\ [][PayloadReturned
          => (/\ WorkerRead
              /\ FrameIncoming(ExpectedKind, ExpectedKind))]_vars
    /\ [][(InRequest /\ MixedFrameIncoming /\ WorkerRead)
          => (/\ ~PayloadReturned
              /\ rx' = Incoming.rest
              /\ seq' = seq /\ buffer' = buffer
              /\ IF tries + 1 < Attempts
                 THEN tries' = tries + 1 /\ wpc' = wpc /\ step' = step
                 ELSE wpc' = "dead" /\ wfail' = "retries")]_vars

\* the reset step has read a frame with the command preamble, the reset
\* ack as payload and the report postamble: it counted an attempt and still
\* awaits its ack; the zero byte sent after that frame is yet unread
C17_Witness ==
    /\ wpc = "rx" /\ step = 2 /\ tries = 1
    /\ rx = <<0>>
    /\ tx = WireUpTo(2)

\* C18 (settle and flush ordering): accepting the reset ack takes the
\* worker to the pause, not to a transmission; during the pause it neither
\* transmits nor reads (the input only grows by what the sensor sends); it
\* leaves the pause for the second enter-config command only by emptying
\* the input buffer, with no partly matched preamble carried over, and with
\* the first two commands only on the wire.
C18_SettleAndFlush ==
    /\ [][(wpc = "rx" /\ step = 2 /\ step' = 3) => (wpc' = "settle")]_vars
    /\ [][(wpc' = "tx" /\ step' = 3 /\ wpc # "tx") => (wpc = "settle")]_vars
    /\ [][(wpc = "settle")
          => (/\ tx' = tx /\ scan' = scan /\ step' = 3
              /\ \/ wpc' = "settle"
                    /\ Len(rx') >= Len(rx)
                    /\ SubSeq(rx', 1, Len(rx)) = rx
                 \/ wpc' = "tx" /\ rx' = <<>> /\ scan = NoScan
                 \/ wpc' = "dead" /\ serial # "open")]_vars
    /\ []((wpc = "tx" /\ step = 3) => (tx = WireUpTo(2)))

\* a report has arrived during the pause after the reset ack
C18_Witness ==
    /\ wpc = "settle" /\ step = 3
    /\ rx = Frame("report", ReportA)
    /\ tx = WireUpTo(2)

\* C19 (shutdown latency on a silent line): a stop requested while the
\* worker is in the reporting loop leads to the worker having set
\* self.stopped, whether or not the sensor sends anything more.
C19_ShutdownOnSilentLine == StopRequestedInLoop ~> stopped

\* C20 (close only after the worker has terminated): on a real port,
\* __exit__ finds self.stopped true, and the port is closed, only when the
\* worker thread no longer runs.
C20_CloseAfterTermination ==
    (port = "COM7") =>
        /\ (cpc = "exit_close") => ~WorkerAlive
        /\ (serial = "closed") => ~WorkerAlive

=============================================================================
